---- MODULE Spec2Model ----
(***************************************************************************)
(* The 2048 board model and move engine of src/src/board.rs, the          *)
(* expectimax search of src/src/search.rs and the agent game loop of      *)
(* src/src/main.rs.                                                        *)
(*                                                                         *)
(* A board is the array cells[i][j], i the row and j the column, both     *)
(* 0-based as in the source; a cell holds a tile exponent (0 = empty).     *)
(* Option<T> is a sequence: <<>> is None and <<x>> is Some(x).             *)
(***************************************************************************)
EXTENDS Integers, Sequences, FiniteSets, TLC

VARIABLES
    row,      \* SpecRow: the row handed to push_left
    prev,     \* SpecRow: the row as it was before the latest call
    pushed,   \* SpecRow: the row after `pushes` calls of push_left
    pushes,   \* SpecRow: how many times push_left has been called on it
    board,    \* the board (self) the board operations are called on
    action,   \* SpecBoard: the Action handed to apply, <<>> before the call
    played,   \* SpecBoard: what apply returned, an Option<Board>
    next,     \* SpecBoard: the board mutated in place by transpose / swap_lr
    ops,      \* SpecBoard: the transforms called on next so far, in order
    pc,       \* where the caller of the operations stands
    spawned,  \* SpecChance: the board after add_random
    outcomes,    \* SpecChance: the items board.successors() yielded, in order
    heur,        \* the heuristic the program was built with
    depth,       \* SpecSearch: the max_actions handed to the search
    result,      \* SpecSearch: what the search returned, <<>> before the call
    num_moves,   \* SpecAgent: num_moves of play_agent
    game_over    \* SpecAgent: game_over of play_agent

vars == <<row, prev, pushed, pushes, board, action, played, next, ops, pc,
          spawned, outcomes, heur, depth, result, num_moves, game_over>>

rowVars == <<row, prev, pushed, pushes>>
boardVars == <<board, action, played, next, ops>>
chanceVars == <<spawned, outcomes>>
searchVars == <<heur, depth, result>>
agentVars == <<num_moves, game_over>>

(***************************************************************************)
(* Program constants and bounds                                            *)
(***************************************************************************)
\* board.rs:170  pub const N: usize = 4
N == 4

\* Largest tile exponent of a row SpecRow hands to push_left.
MaxRowTile == 3

\* At most this many cells of a background board are overwritten.
MaxEdits == 2

\* At most this many cells of a background board are overwritten on the
\* boards handed to the search.
MaxSearchEdits == 1

\* Largest depth budget (max_actions) handed to the search.
MaxSearchDepth == 2

\* At most this many cells of the locked board are overwritten on the boards
\* of SpecCache.
MaxCacheEdits == 1

\* Largest remaining depth at which SpecCache looks up the boards a search
\* left in the cache.
MaxLookupDepth == 1

\* Largest tile exponent of a locked board handed to the search.
MaxLockTile == 3

\* How many moves SpecAgent lets the agent play.
MaxMoves == 1

\* search.rs:12  select_action_expectimax(board, 3)
SearchDepth == 3

\* How many transforms (transpose, swap_lr) SpecBoard calls in a row.
MaxOps == 2

\* How many moves SpecPerson lets the player make.
MaxGameMoves == 2

\* How many times in a row SpecRow calls push_left on one row.
MaxPushes == 2

Idx == 0 .. (N - 1)

\* the cells of a board, as <<i, j>>
Positions == Idx \X Idx

\* row[k] and cells[i][j] of the source, whose indices start at 0; the
\* model stores an array as the sequence of its elements.
At(r, k) == r[k + 1]
Cell(cells, i, j) == cells[i + 1][j + 1]
Set(r, k, v) == [r EXCEPT ![k + 1] = v]
SetCell(cells, i, j, v) == [cells EXCEPT ![i + 1][j + 1] = v]

\* [u8; N] with the cells a, b, c, d
Row(a, b, c, d) == <<a, b, c, d>>

\* A call has returned its result r, or a statement has left the array r
\* behind.  TLC evaluates a LET definition and an argument where it is first
\* used; testing Returned(r) makes it run the call or the statement at the
\* place the program runs it, before the statements that follow.  Every
\* loop tests it on the array it is entered with.
Returned(r) == Len(r) > 0

RECURSIVE RowsOver(_, _)
\* every array of n cells with the values of vals
RowsOver(vals, n) ==
    IF n = 0 THEN {<<>>}
    ELSE {Append(r, v) : r \in RowsOver(vals, n - 1), v \in vals}

Rows == RowsOver(0 .. MaxRowTile, N)

(***************************************************************************)
(* push_left on one row (board.rs:333-367)                                 *)
(***************************************************************************)
\* A look-ahead that stops on the first cell, empty or not
SkipNone(r, read_index) == read_index

\* A tail that is left as it was, not cleared
KeepTail(r, write_index) == r

RECURSIVE SkipEmpty(_, _)
\* board.rs:349-351: while read_index < N && row[read_index] == 0
SkipEmpty(r, read_index) ==
    IF read_index < N /\ At(r, read_index) = 0
    THEN SkipEmpty(r, read_index + 1)
    ELSE read_index

RECURSIVE FillZero(_, _)
\* board.rs:366: row[write_index..].fill(0)
FillZero(r, write_index) ==
    IF ~Returned(r) \/ write_index >= N THEN r
    ELSE FillZero(Set(r, write_index, 0), write_index + 1)

RECURSIVE PushLeftLoop(_, _, _)
\* board.rs:338-363: the while loop, on the row as mutated so far
PushLeftLoop(r, write_index, read_index) ==
    IF ~Returned(r) \/ read_index >= N
    THEN FillZero(r, write_index)
    ELSE IF At(r, read_index) = 0
    THEN PushLeftLoop(r, write_index, read_index + 1)
    ELSE LET value == At(r, read_index)
             next_index == IF read_index + 1 < N
                           THEN SkipEmpty(r, read_index + 1)
                           ELSE read_index + 1
         IN  IF next_index < N /\ At(r, next_index) = value
             THEN PushLeftLoop(Set(r, write_index, value + 1),
                               write_index + 1, next_index + 1)
             ELSE PushLeftLoop(Set(r, write_index, value),
                               write_index + 1, next_index)

\* fn push_left(row: &mut [u8; N]): the row it leaves behind
push_left(r) == PushLeftLoop(r, 0, 0)

(***************************************************************************)
(* Board (board.rs:179-318)                                                *)
(***************************************************************************)
RECURSIVE Repeat(_, _)
\* [x; n]
Repeat(x, n) == IF n = 0 THEN <<>> ELSE Append(Repeat(x, n - 1), x)

\* board.rs:185  const EMPTY: Board = Board { cells: [[0; N]; N] }
EMPTY == Repeat(Repeat(0, N), N)

RECURSIVE PushLeftRows(_, _)
\* board.rs:314-316: for row in &mut self.cells { push_left(row) }
PushLeftRows(cells, i) ==
    IF ~Returned(cells) \/ i >= N THEN cells
    ELSE PushLeftRows(Set(cells, i, push_left(At(cells, i))), i + 1)

\* fn push_left(&mut self)
push_left_all(cells) == PushLeftRows(cells, 0)

RECURSIVE SwapLrLoop(_, _, _)
\* board.rs:286-290: while i < j { row.swap(i, j); i += 1; j -= 1 }
SwapLrLoop(r, i, j) ==
    IF Returned(r) /\ i < j
    THEN SwapLrLoop(Set(Set(r, i, At(r, j)), j, At(r, i)), i + 1, j - 1)
    ELSE r

RECURSIVE SwapLrRows(_, _)
\* board.rs:283: for row in &mut self.cells
SwapLrRows(cells, k) ==
    IF ~Returned(cells) \/ k >= N THEN cells
    ELSE SwapLrRows(Set(cells, k, SwapLrLoop(At(cells, k), 0, N - 1)), k + 1)

\* fn swap_lr(&mut self)
swap_lr(cells) == SwapLrRows(cells, 0)

\* A swap that keeps no copy of the cell it overwrites first
SwapCellsWithoutTmp(cells, i, j) ==
    SetCell(SetCell(cells, i, j, Cell(cells, j, i)), j, i, Cell(cells, j, i))

\* board.rs:298-300: swap cells[i][j] and cells[j][i] through tmp
SwapCells(cells, i, j) ==
    LET tmp == Cell(cells, i, j)
    IN  SetCell(SetCell(cells, i, j, Cell(cells, j, i)), j, i, tmp)

RECURSIVE TransposeLoop(_, _, _)
\* board.rs:296-302: for i in 0..N { for j in 0..i { ... } }
TransposeLoop(cells, i, j) ==
    IF ~Returned(cells) \/ i >= N THEN cells
    ELSE IF j >= i THEN TransposeLoop(cells, i + 1, 0)
    ELSE TransposeLoop(SwapCells(cells, i, j), i, j + 1)

\* fn transpose(&mut self)
transpose(cells) == TransposeLoop(cells, 0, 0)

\* board.rs:322-330
ALL_ACTIONS == <<"Up", "Down", "Left", "Right">>
Actions == {ALL_ACTIONS[k] : k \in 1 .. Len(ALL_ACTIONS)}

\* A match on the action whose arms never mirror the board
MovedWithoutMirror(cells, a) ==
    IF a \in {"Left", "Right"}
    THEN push_left_all(cells)
    ELSE transpose(push_left_all(transpose(cells)))

\* board.rs:192-213: `next` after the match on the action
Moved(cells, a) ==
    CASE a = "Left"  -> push_left_all(cells)
      [] a = "Up"    -> transpose(push_left_all(transpose(cells)))
      [] a = "Down"  -> transpose(swap_lr(push_left_all(swap_lr(transpose(cells)))))
      [] a = "Right" -> swap_lr(push_left_all(swap_lr(cells)))

\* An apply that returns Some(next) whether or not the board changed
ApplyAlways(cells, a) == <<Moved(cells, a)>>

\* An apply that returns Some(next) for every board with a tile
ApplyUnlessEmpty(cells, a) == IF cells = EMPTY THEN <<>> ELSE <<Moved(cells, a)>>

\* Board::apply and PlayableBoard::apply: Some(next) if the board changed
apply(cells, a) ==
    LET nxt == Moved(cells, a)
    IN  IF cells # nxt THEN <<nxt>> ELSE <<>>

(***************************************************************************)
(* The chance model (board.rs:224-279).  An f32 is modelled by the exact   *)
(* rational <<numerator, denominator>> in lowest terms, denominator > 0.   *)
(***************************************************************************)
RECURSIVE Gcd(_, _)
Gcd(a, b) == IF b = 0 THEN a ELSE Gcd(b, a % b)

Abs(a) == IF a < 0 THEN -a ELSE a

Rat(n, d) == LET g == Gcd(Abs(n), d) IN <<n \div g, d \div g>>

RatAdd(x, y) ==
    LET l == (x[2] \div Gcd(x[2], y[2])) * y[2]
    IN  Rat(x[1] * (l \div x[2]) + y[1] * (l \div y[2]), l)

RatMul(x, y) ==
    LET a == Rat(x[1], y[2])
        b == Rat(y[1], x[2])
    IN  <<a[1] * b[1], a[2] * b[2]>>

\* x >= y
RatGe(x, y) ==
    LET l == (x[2] \div Gcd(x[2], y[2])) * y[2]
    IN  x[1] * (l \div x[2]) >= y[1] * (l \div y[2])

\* x > y
RatGt(x, y) ==
    LET l == (x[2] \div Gcd(x[2], y[2])) * y[2]
    IN  x[1] * (l \div x[2]) > y[1] * (l \div y[2])

Zero == <<0, 1>>

RECURSIVE EmptyCellsFrom(_, _)
\* board.rs:263-267: the (i, j) of the empty cells, rows first, from cell k on
EmptyCellsFrom(cells, k) ==
    IF k >= N * N THEN <<>>
    ELSE LET i == k \div N
             j == k % N
         IN  IF Cell(cells, i, j) = 0
             THEN <<(<<i, j>>)>> \o EmptyCellsFrom(cells, k + 1)
             ELSE EmptyCellsFrom(cells, k + 1)

empty_cells(cells) == EmptyCellsFrom(cells, 0)

\* board.rs:251-257
num_empty(cells) == Len(empty_cells(cells))

\* board.rs:270: [(1, 0.9), (2, 0.1)], the probabilities in tenths
SpawnTable == <<(<<1, 9>>), (<<2, 1>>)>>

RECURSIVE SuccessorsOnes(_, _, _, _)
\* An enumeration that yields only the first row of the spawn table
SuccessorsOnes(cells, n, ec, k) ==
    IF k > Len(ec) THEN <<>>
    ELSE << <<Rat(SpawnTable[1][2], 10 * n),
              SetCell(cells, ec[k][1], ec[k][2], SpawnTable[1][1])>> >>
         \o SuccessorsOnes(cells, n, ec, k + 1)

RECURSIVE SuccessorsFrom(_, _, _, _)
\* board.rs:269-278: the items yielded for the empty cells ec[k], ec[k+1], ...
SuccessorsFrom(cells, n, ec, k) ==
    IF k > Len(ec) THEN <<>>
    ELSE LET i == ec[k][1]
             j == ec[k][2]
         IN  << <<Rat(SpawnTable[1][2], 10 * n), SetCell(cells, i, j, SpawnTable[1][1])>>,
                <<Rat(SpawnTable[2][2], 10 * n), SetCell(cells, i, j, SpawnTable[2][1])>> >>
             \o SuccessorsFrom(cells, n, ec, k + 1)

\* Board::random_successors and RandableBoard::successors: the items the
\* iterator yields, in order, each <<proba / n, next>>
random_successors(cells) ==
    SuccessorsFrom(cells, num_empty(cells), empty_cells(cells), 1)

\* A spawn that writes the picked-th cell of the board, empty or not
AddRandomAnywhere(cells, picked, value) ==
    SetCell(cells, picked \div N, picked % N, value)

\* Board::add_random with the draws picked (board.rs:230) and value
\* (board.rs:244): the picked-th empty cell, rows first, is set to value
add_random(cells, picked, value) ==
    LET c == At(empty_cells(cells), picked)
    IN  SetCell(cells, c[1], c[2], value)

\* board.rs:244: if random_bool(0.9) { 1 } else { 2 }
SpawnValues == {1, 2}

(***************************************************************************)
(* The heuristic, crate::eval::eval.  Its source is not part of the        *)
(* files modelled; the design only fixes its contract (a pure function     *)
(* from a board to a number).  A heuristic is named by its kind.           *)
(***************************************************************************)
Heuristics == {"empty", "zero", "negative", "corner"}

RECURSIVE SeqSum(_)
SeqSum(q) == IF q = <<>> THEN 0 ELSE Head(q) + SeqSum(Tail(q))

TileSum(cells) == SeqSum(cells[1] \o cells[2] \o cells[3] \o cells[4])

\* RandableBoard::evaluate
evaluate(h, cells) ==
    CASE h = "empty"    -> <<num_empty(cells), 1>>
      [] h = "zero"     -> Zero
      [] h = "negative" -> <<0 - TileSum(cells), 1>>
      [] h = "corner"   -> <<Cell(cells, 0, 0) - Cell(cells, N - 1, N - 1), 1>>

(***************************************************************************)
(* The expectimax search (search.rs:69-136).  The cache maps a board to    *)
(* <<value, remaining_actions>>; every function returns its result, the    *)
(* cache it leaves behind, and the history of the calls of                 *)
(* evaluate_randable that returned while it ran.  The history is a tree    *)
(* <<returns, parts>>: returns holds the return of the call itself, if it  *)
(* is one, as <<board, remaining_actions, value, hit>>, and parts holds    *)
(* the histories of the calls and loop runs made inside.                   *)
(***************************************************************************)
\* A cache that keeps the entry a board already has
CacheInsertOnce(cache, cells, entry) == cache @@ (cells :> entry)

\* cache.insert(board, (sum, remaining_actions))
CacheInsert(cache, cells, entry) == (cells :> entry) @@ cache

\* A lookup that takes the entry of the board whatever depth it was stored for
CacheHitAnyDepth(cache, cells, remaining_actions) == cells \in DOMAIN cache

\* search.rs:99: cache.contains_key(&board) && cache[&board].1 == remaining_actions
CacheHit(cache, cells, remaining_actions) ==
    cells \in DOMAIN cache /\ cache[cells][2] = remaining_actions

\* the history of a run in which evaluate_randable was not called
NoCalls == <<(<<>>), (<<>>)>>

\* the history of a run made of the runs with the histories in parts
Calls(parts) == <<(<<>>), parts>>

\* the history of a call of evaluate_randable that returned value, after
\* the run with the history inner
Call(cells, remaining_actions, value, hit, inner) ==
    <<(<<(<<cells, remaining_actions, value, hit>>)>>), (<<inner>>)>>

RECURSIVE evaluate_randable(_, _, _, _)
RECURSIVE evaluate_playable(_, _, _, _)
RECURSIVE SpawnLoop(_, _, _, _, _, _, _, _)
RECURSIVE ActionLoop(_, _, _, _, _, _, _)

\* search.rs:106-109: the for loop over board.successors() run for the
\* items succs[lo] .. succs[hi], entered with sum and cache and left with
\* <<sum, cache, calls>>; a run of several items is the run of its first
\* half followed by the run of its second half
SpawnLoop(h, cells, succs, lo, hi, sum, remaining_actions, cache) ==
    IF lo > hi THEN <<sum, cache, NoCalls>>
    ELSE IF lo = hi
    THEN LET r == evaluate_playable(h, succs[lo][2], remaining_actions, cache)
             sum1 == RatAdd(sum, RatMul(succs[lo][1], r[1]))
         IN  IF Returned(r) /\ Returned(sum1)
             THEN <<sum1, CacheInsert(r[2], cells, <<sum1, remaining_actions>>), r[3]>>
             ELSE r
    ELSE LET mid == (lo + hi) \div 2
             half == SpawnLoop(h, cells, succs, lo, mid, sum, remaining_actions, cache)
         IN  IF Returned(half)
             THEN LET rest == SpawnLoop(h, cells, succs, mid + 1, hi, half[1],
                                        remaining_actions, half[2])
                  IN  IF Returned(rest)
                      THEN <<rest[1], rest[2], Calls(<<half[3], rest[3]>>)>>
                      ELSE rest
             ELSE half

\* fn evaluate_randable
evaluate_randable(h, cells, remaining_actions, cache) ==
    IF CacheHit(cache, cells, remaining_actions)
    THEN <<cache[cells][1], cache,
           Call(cells, remaining_actions, cache[cells][1], TRUE, NoCalls)>>
    ELSE IF remaining_actions = 0
    THEN <<evaluate(h, cells), cache,
           Call(cells, remaining_actions, evaluate(h, cells), FALSE, NoCalls)>>
    ELSE LET succs == random_successors(cells)
             r == SpawnLoop(h, cells, succs, 1, Len(succs), Zero, remaining_actions, cache)
         IN  IF Returned(r)
             THEN <<r[1], r[2], Call(cells, remaining_actions, r[1], FALSE, r[3])>>
             ELSE r

\* search.rs:123-134: the for loop over ALL_ACTIONS run for the actions
\* ALL_ACTIONS[lo] .. ALL_ACTIONS[hi], entered with best_score and cache and
\* left with <<best_score, cache, calls>>; a run of several actions is the
\* run of its first half followed by the run of its second half
ActionLoop(h, cells, lo, hi, best_score, remaining_actions, cache) ==
    IF lo > hi THEN <<best_score, cache, NoCalls>>
    ELSE IF lo = hi
    THEN LET succ == apply(cells, ALL_ACTIONS[lo])
             r == evaluate_randable(h, succ[1], remaining_actions - 1, cache)
         IN  IF succ = <<>> THEN <<best_score, cache, NoCalls>>
             ELSE IF RatGt(r[1], best_score) THEN r
             ELSE <<best_score, r[2], r[3]>>
    ELSE LET mid == (lo + hi) \div 2
             half == ActionLoop(h, cells, lo, mid, best_score, remaining_actions, cache)
             rest == ActionLoop(h, cells, mid + 1, hi, half[1], remaining_actions, half[2])
         IN  IF Returned(half) /\ Returned(rest)
             THEN <<rest[1], rest[2], Calls(<<half[3], rest[3]>>)>>
             ELSE rest

\* fn evaluate_playable
evaluate_playable(h, cells, remaining_actions, cache) ==
    ActionLoop(h, cells, 1, Len(ALL_ACTIONS), Zero, remaining_actions, cache)

\* A selection that returns the first action without trying it
SelectFirst(h, cells, k, best_action, best_score, remaining_actions, cache, scores) ==
    <<(<<ALL_ACTIONS[1]>>), best_score, cache, scores, NoCalls>>

\* search.rs:78-82: current_eval is r[1]; the best action and score after
\* the comparison, with the cache and the history r brought back
Compared(k, best_action, best_score, scores, r) ==
    IF RatGt(r[1], best_score)
    THEN <<(<<ALL_ACTIONS[k]>>), r[1], r[2], Append(scores, <<r[1]>>), r[3]>>
    ELSE <<best_action, best_score, r[2], Append(scores, <<r[1]>>), r[3]>>

\* search.rs:76-85: the body of the for loop over ALL_ACTIONS, run for
\* action k; the result is <<best_action, best_score, cache, scores, calls>>,
\* where scores has gained <<score>> if the action applies and <<>> if it
\* does not
SelectIteration(h, cells, k, best_action, best_score, remaining_actions, cache, scores) ==
    LET succ == apply(cells, ALL_ACTIONS[k])
    IN  IF succ # <<>>
        THEN Compared(k, best_action, best_score, scores,
                      evaluate_randable(h, succ[1], remaining_actions - 1, cache))
        ELSE <<best_action, best_score, cache, Append(scores, <<>>), NoCalls>>

RECURSIVE SelectLoop(_, _, _, _, _, _, _, _)
RECURSIVE SelectRest(_, _, _, _, _)
\* search.rs:75-86: the iterations that follow the iteration for action k,
\* which has returned it
SelectRest(h, cells, k, remaining_actions, it) ==
    LET rest == SelectLoop(h, cells, k + 1, it[1], it[2], remaining_actions, it[3], it[4])
    IN  IF Returned(it) /\ Returned(rest)
        THEN <<rest[1], rest[2], rest[3], rest[4], Calls(<<it[5], rest[5]>>)>>
        ELSE rest

\* search.rs:75-86: the for loop over ALL_ACTIONS, from action k on; scores
\* records what each iteration computed
SelectLoop(h, cells, k, best_action, best_score, remaining_actions, cache, scores) ==
    IF k > Len(ALL_ACTIONS) THEN <<best_action, best_score, cache, scores, NoCalls>>
    ELSE SelectRest(h, cells, k, remaining_actions,
                    SelectIteration(h, cells, k, best_action, best_score,
                                    remaining_actions, cache, scores))

\* The empty HashMap of search.rs:71
EmptyCache == <<>>

\* fn select_action_expectimax(board, max_actions), with the result of
\* SelectLoop
select_action_expectimax(h, cells, max_actions) ==
    SelectLoop(h, cells, 1, <<>>, Zero, max_actions, EmptyCache, <<>>)

\* the smaller of two numbers
Min(a, b) == IF a < b THEN a ELSE b

\* fn select_action (search.rs:9-13): the search at depth SearchDepth, which
\* the model caps at MaxSearchDepth
select_action(h, cells) ==
    select_action_expectimax(h, cells, Min(SearchDepth, MaxSearchDepth))[1]

(***************************************************************************)
(* The boards the operations are checked on: a background (the empty       *)
(* board, or the locked board where the two spawned tiles alternate like   *)
(* the squares of a chess board) with at most MaxEdits cells overwritten   *)
(* by an empty cell or a spawned tile, and the board of test_actions.      *)
(***************************************************************************)
\* board.rs:270: the tiles a spawn writes
SpawnTiles == {SpawnTable[k][1] : k \in 1 .. Len(SpawnTable)}

Checker(a, b) == <<Row(a, b, a, b), Row(b, a, b, a), Row(a, b, a, b), Row(b, a, b, a)>>

Backgrounds == {EMPTY, Checker(SpawnTable[1][1], SpawnTable[2][1])}

\* board.rs:393-395: the board of tests::test_actions
TestBoard == <<Row(1, 2, 1, 0), Row(4, 1, 0, 0), Row(3, 0, 0, 0), Row(0, 0, 0, 0)>>

\* board.rs:396-398: the target of tests::test_actions
TestTarget == <<Row(0, 0, 0, 0), Row(1, 0, 0, 0), Row(4, 2, 0, 0), Row(3, 1, 1, 0)>>

RECURSIVE Edited(_, _)
\* the boards that differ from a board of bs in at most k cells, each
\* overwritten by an empty cell or a spawned tile
Edited(bs, k) ==
    IF k = 0 THEN bs
    ELSE LET fewer == Edited(bs, k - 1)
         IN  fewer \cup {SetCell(b, c[1], c[2], v) :
                            b \in fewer, c \in Positions, v \in {0} \cup SpawnTiles}

Boards == {TestBoard} \cup Edited(Backgrounds, MaxEdits)

\* the locked boards: full, two different tiles alternating
LockedBoards ==
    {Checker(a, b) : a \in 1 .. MaxLockTile, b \in 1 .. MaxLockTile} \
        {Checker(a, a) : a \in 1 .. MaxLockTile}

\* the boards handed to the search
SearchBoards == LockedBoards \cup Edited(Backgrounds, MaxSearchEdits)

(***************************************************************************)
(* SpecRow: push_left called on every row of exponents 0..MaxRowTile       *)
(***************************************************************************)
\* The board part of the state, unused by SpecRow
NoBoard ==
    /\ board = EMPTY
    /\ action = <<>>
    /\ played = <<>>
    /\ next = EMPTY
    /\ ops = <<>>

\* The chance part of the state, before any spawn
NoChance ==
    /\ spawned = <<>>
    /\ outcomes = <<>>

\* The search part of the state, unused where no search runs
NoSearch ==
    /\ heur = "zero"
    /\ depth = 0
    /\ result = <<>>

\* The agent part of the state, as play_agent sets it up (main.rs:63-66)
NoAgent ==
    /\ num_moves = 0
    /\ game_over = FALSE

InitRow ==
    /\ row \in Rows
    /\ prev = row
    /\ pushed = row
    /\ pushes = 0
    /\ pc = "start"
    /\ NoBoard
    /\ NoChance
    /\ NoSearch
    /\ NoAgent

PushLeftRow ==
    /\ pushes < MaxPushes
    /\ prev' = pushed
    /\ pushed' = push_left(pushed)
    /\ pushes' = pushes + 1
    /\ UNCHANGED <<row, pc, boardVars, chanceVars, searchVars, agentVars>>

NextRow == PushLeftRow

SpecRow == InitRow /\ [][NextRow]_vars

(***************************************************************************)
(* The single-pass reference of a row move                                 *)
(***************************************************************************)
\* the non-empty cells of r, left to right
NonEmpty(r) == SelectSeq(r, LAMBDA v : v # 0)

RECURSIVE MergeTiles(_)
\* tiles merged pairwise from the left, a merged tile never merging again
MergeTiles(s) ==
    IF Len(s) < 2 THEN s
    ELSE IF s[1] = s[2]
    THEN <<s[1] + 1>> \o MergeTiles(SubSeq(s, 3, Len(s)))
    ELSE <<s[1]>> \o MergeTiles(Tail(s))

\* the tiles s written from index 0, the rest of the row zero
Padded(s) == s \o Repeat(0, N - Len(s))

RefRow(r) == Padded(MergeTiles(NonEmpty(r)))

\* no two neighbouring cells of r hold the same tile
NoEqualNeighbours(r) ==
    \A k \in 0 .. (N - 2) : At(r, k) = 0 \/ At(r, k) # At(r, k + 1)

\* C2: push_left gives every row its single-pass reference result (the
\* non-empty cells in order, equal neighbours merged once from the left,
\* written from index 0 and zero-filled), and the four rows of the claim
\* give the results it lists.
C2_PushLeftIsReference ==
    /\ pushes >= 1 => pushed = RefRow(prev)
    /\ push_left(Row(1, 1, 1, 0)) = Row(2, 1, 0, 0)
    /\ push_left(Row(0, 2, 2, 2)) = Row(3, 2, 0, 0)
    /\ push_left(Row(1, 1, 0, 1)) = Row(2, 1, 0, 0)
    /\ push_left(Row(1, 2, 0, 1)) = Row(1, 2, 1, 0)

\* push_left has turned [0,2,2,2] into [3,2,0,0]
C2_Witness ==
    /\ row = Row(0, 2, 2, 2)
    /\ pushes = 1
    /\ pushed = Row(3, 2, 0, 0)

\* C9 as stated: the second push_left of a row gives what the first gave.
C9_Idempotent == pushes = 2 => pushed = prev

\* C9, amended: the second push_left of a row gives what the first gave
\* whenever the first left no two equal tiles side by side.
C9_IdempotentWithoutEqualNeighbours ==
    (pushes = 2 /\ NoEqualNeighbours(prev)) => pushed = prev

\* a row the first push_left changed and the second left alone
C9_Witness ==
    /\ pushes = 2
    /\ row = Row(1, 1, 0, 3)
    /\ prev = Row(2, 3, 0, 0)
    /\ NoEqualNeighbours(prev)
    /\ pushed = prev

(***************************************************************************)
(* SpecBoard: apply, transpose and swap_lr called on the boards of Boards  *)
(***************************************************************************)
NoRow ==
    /\ row = Repeat(0, N)
    /\ prev = row
    /\ pushed = row
    /\ pushes = 0

InitBoard ==
    /\ board \in Boards
    /\ action = <<>>
    /\ played = <<>>
    /\ next = board
    /\ ops = <<>>
    /\ pc = "start"
    /\ NoRow
    /\ NoChance
    /\ NoSearch
    /\ NoAgent

\* let played = board.apply(a)
Apply(a) ==
    /\ action = <<>>
    /\ ops = <<>>
    /\ action' = <<a>>
    /\ played' = apply(board, a)
    /\ UNCHANGED <<board, next, ops, pc, rowVars, chanceVars, searchVars, agentVars>>

\* next.transpose()
Transpose ==
    /\ action = <<>>
    /\ Len(ops) < MaxOps
    /\ next' = transpose(next)
    /\ ops' = Append(ops, "transpose")
    /\ UNCHANGED <<board, action, played, pc, rowVars, chanceVars, searchVars, agentVars>>

\* next.swap_lr()
SwapLr ==
    /\ action = <<>>
    /\ Len(ops) < MaxOps
    /\ next' = swap_lr(next)
    /\ ops' = Append(ops, "swap_lr")
    /\ UNCHANGED <<board, action, played, pc, rowVars, chanceVars, searchVars, agentVars>>

NextBoard ==
    \/ \E a \in Actions : Apply(a)
    \/ Transpose
    \/ SwapLr

SpecBoard == InitBoard /\ [][NextBoard]_vars

(***************************************************************************)
(* The reference of a board move: every line merged on its own toward the  *)
(* edge of the action                                                      *)
(***************************************************************************)
RECURSIVE Reversed(_)
Reversed(s) == IF s = <<>> THEN <<>> ELSE Append(Reversed(Tail(s)), Head(s))

\* column j of cells, top to bottom (j from 1)
Column(cells, j) == [i \in 1 .. N |-> cells[i][j]]

\* the board whose columns are cols
FromColumns(cols) == [i \in 1 .. N |-> [j \in 1 .. N |-> cols[j][i]]]

RefMove(cells, a) ==
    CASE a = "Left"  -> [i \in 1 .. N |-> RefRow(cells[i])]
      [] a = "Right" -> [i \in 1 .. N |-> Reversed(RefRow(Reversed(cells[i])))]
      [] a = "Up"    -> FromColumns([j \in 1 .. N |-> RefRow(Column(cells, j))])
      [] a = "Down"  ->
            FromColumns([j \in 1 .. N |->
                            Reversed(RefRow(Reversed(Column(cells, j))))])

\* how many cells of the board hold v
Count(cells, v) == Cardinality({c \in Positions : Cell(cells, c[1], c[2]) = v})

\* the values the cells of the board hold
Values(cells) == {Cell(cells, c[1], c[2]) : c \in Positions}

SameTiles(b1, b2) ==
    \A v \in Values(b1) \cup Values(b2) : Count(b1, v) = Count(b2, v)

\* the state part of C1
C1_Result ==
    action # <<>> =>
        /\ played = <<>> <=> RefMove(board, action[1]) = board
        /\ played # <<>> =>
              /\ played[1] = RefMove(board, action[1])
              /\ \E c \in Positions :
                    Cell(played[1], c[1], c[2]) # Cell(board, c[1], c[2])

\* C1: apply(b, a) returns None exactly when the move toward a leaves every
\* cell of b as it is; otherwise it returns Some(s), s the moved board,
\* which differs from b in at least one cell; and the call leaves b itself
\* as it was.
C1_ApplyNoneIffUnchanged ==
    /\ []C1_Result
    /\ [][\A a \in Actions : Apply(a) => board' = board]_vars

\* apply has returned None for Left on a board whose tiles already sit
\* unmerged against the left edge
C1_Witness ==
    /\ board = SetCell(SetCell(EMPTY, 0, 0, 1), 0, 1, 2)
    /\ action = <<"Left">>
    /\ played = <<>>

\* C3: the board apply computes for an action is the reference move toward
\* the edge of that action, every line merged on its own: rows toward
\* column 0 (Left) or N-1 (Right), columns toward row 0 (Up) or N-1 (Down);
\* Down on the board of test_actions gives its target.
C3_ApplyIsReferenceMove ==
    /\ action # <<>> => Moved(board, action[1]) = RefMove(board, action[1])
    /\ (action = <<"Down">> /\ board = TestBoard) => played = <<TestTarget>>

\* apply has played Down on the board of test_actions
C3_Witness ==
    /\ board = TestBoard
    /\ action = <<"Down">>
    /\ played = <<TestTarget>>

\* C10: transpose called twice gives the board back, swap_lr called twice
\* gives the board back, and whatever transforms are called the board
\* keeps the same tiles, each as many times.
C10_TransformsSelfInverse ==
    /\ ops = <<"transpose", "transpose">> => next = board
    /\ ops = <<"swap_lr", "swap_lr">> => next = board
    /\ SameTiles(next, board)

\* transpose has been called twice on a board it changes
C10_Witness ==
    /\ ops = <<"transpose", "transpose">>
    /\ transpose(board) # board
    /\ swap_lr(board) # board
    /\ next = board

(***************************************************************************)
(* SpecChance: the chance-state board is handed once to the random spawn   *)
(* (with_random_tile / add_random) or to the enumeration (successors)      *)
(***************************************************************************)
InitChance ==
    /\ board \in Boards
    /\ action = <<>>
    /\ played = <<>>
    /\ next = board
    /\ ops = <<>>
    /\ pc = "start"
    /\ NoRow
    /\ NoChance
    /\ NoSearch
    /\ NoAgent

\* played.with_random_tile(): add_random on a copy of the board, the two
\* draws being any the generator can make
WithRandomTile ==
    /\ pc = "start"
    /\ num_empty(board) > 0
    /\ \E picked \in 0 .. (num_empty(board) - 1), value \in SpawnValues :
          spawned' = <<add_random(board, picked, value)>>
    /\ pc' = "spawned"
    /\ UNCHANGED <<outcomes, rowVars, boardVars, searchVars, agentVars>>

\* board.rs:230: random_range(0..n) panics on the empty range
WithRandomTilePanics ==
    /\ pc = "start"
    /\ num_empty(board) = 0
    /\ pc' = "panicked"
    /\ UNCHANGED <<chanceVars, rowVars, boardVars, searchVars, agentVars>>

\* board.successors().collect()
Successors ==
    /\ pc = "start"
    /\ outcomes' = random_successors(board)
    /\ pc' = "enumerated"
    /\ UNCHANGED <<spawned, rowVars, boardVars, searchVars, agentVars>>

NextChance ==
    \/ WithRandomTile
    \/ WithRandomTilePanics
    \/ Successors

SpecChance == InitChance /\ [][NextChance]_vars

\* the items of outcomes whose board is b
OutcomesOf(b) == {k \in 1 .. Len(outcomes) : outcomes[k][2] = b}

RECURSIVE ProbaSumFrom(_, _, _)
\* sum plus the probabilities of the items q[k], q[k+1], ...
ProbaSumFrom(q, k, sum) ==
    IF k > Len(q) THEN sum
    ELSE LET more == RatAdd(sum, q[k][1])
         IN  IF Returned(more) THEN ProbaSumFrom(q, k + 1, more) ELSE more

\* the sum of the probabilities of the items of q, added in order
ProbaSum(q) == ProbaSumFrom(q, 1, Zero)

\* the empty cells of the board
EmptyPositions(cells) == {c \in Positions : Cell(cells, c[1], c[2]) = 0}

\* C7: on a board with e >= 1 empty cells the enumeration yields exactly
\* 2e outcomes: for each empty cell one with that cell set to 1 and
\* probability 0.9/e and one with that cell set to 2 and probability 0.1/e,
\* all other cells as in the board; the probabilities sum to 1.
C7_SuccessorsEnumerateSpawns ==
    LET e == Cardinality(EmptyPositions(board))
    IN  (pc = "enumerated" /\ e >= 1) =>
            /\ Len(outcomes) = 2 * e
            /\ \A c \in EmptyPositions(board) :
                  /\ \E k \in 1 .. Len(outcomes) :
                        /\ OutcomesOf(SetCell(board, c[1], c[2], 1)) = {k}
                        /\ outcomes[k][1] = Rat(9, 10 * e)
                  /\ \E k \in 1 .. Len(outcomes) :
                        /\ OutcomesOf(SetCell(board, c[1], c[2], 2)) = {k}
                        /\ outcomes[k][1] = Rat(1, 10 * e)
            /\ ProbaSum(outcomes) = <<1, 1>>

\* the spawns of a board with two empty cells have been enumerated
C7_Witness ==
    /\ pc = "enumerated"
    /\ Cardinality(EmptyPositions(board)) = 2
    /\ Len(outcomes) = 4

\* b is `from` with one empty cell turned into a 1 or a 2
OneSpawn(from, b) ==
    \E c \in EmptyPositions(from), v \in {1, 2} : b = SetCell(from, c[1], c[2], v)

\* C8: every result of the random spawn on a board with an empty cell is
\* one of the boards the enumeration yields for it, the board with exactly
\* one empty cell turned into a 1 or a 2; and every board the enumeration
\* yields is a result the random spawn can give.
C8_SpawnIsEnumerated ==
    /\ pc = "spawned" =>
          LET succs == random_successors(board)
          IN  /\ spawned[1] \in {succs[k][2] : k \in 1 .. Len(succs)}
              /\ OneSpawn(board, spawned[1])
    /\ (pc = "enumerated" /\ num_empty(board) > 0) =>
          LET results == {add_random(board, picked, value) :
                             picked \in 0 .. (num_empty(board) - 1),
                             value \in SpawnValues}
          IN  \A k \in 1 .. Len(outcomes) : outcomes[k][2] \in results

\* the random spawn has put a 2 on a board with tiles and empty cells
C8_Witness ==
    /\ pc = "spawned"
    /\ num_empty(board) \in 2 .. (N * N - 1)
    /\ \E c \in EmptyPositions(board) : spawned[1] = SetCell(board, c[1], c[2], 2)

(***************************************************************************)
(* SpecSearch: one top-level search, select_action_expectimax(board,       *)
(* depth), with each heuristic                                             *)
(***************************************************************************)
InitSearch ==
    /\ board \in SearchBoards
    /\ action = <<>>
    /\ played = <<>>
    /\ next = board
    /\ ops = <<>>
    /\ pc = "start"
    /\ heur \in Heuristics
    /\ depth \in 1 .. MaxSearchDepth
    /\ result = <<>>
    /\ NoRow
    /\ NoChance
    /\ NoAgent

\* let result = select_action_expectimax(board, depth)
Search ==
    /\ pc = "start"
    /\ result' = select_action_expectimax(heur, board, depth)
    /\ pc' = "searched"
    /\ UNCHANGED <<heur, depth, rowVars, boardVars, chanceVars, agentVars>>

NextSearch == Search

SpecSearch == InitSearch /\ [][NextSearch]_vars

\* the places in ALL_ACTIONS of the actions that apply to the board
Legal(cells) == {k \in 1 .. Len(ALL_ACTIONS) : apply(cells, ALL_ACTIONS[k]) # <<>>}

\* the number x[1] / x[2] is greater than the number y[1] / y[2]
Exceeds(x, y) ==
    LET g == Gcd(x[2], y[2])
    IN  x[1] * (y[2] \div g) > y[1] * (x[2] \div g)

\* the places of the legal actions whose score no legal action exceeds
Maximal(cells, scores) ==
    {k \in Legal(cells) : \A j \in Legal(cells) : ~Exceeds(scores[j][1], scores[k][1])}

\* the least element of a non-empty set of numbers
Least(S) == CHOOSE k \in S : \A j \in S : k <= j

FullAndLocked(cells) ==
    \A c \in Positions :
        /\ Cell(cells, c[1], c[2]) # 0
        /\ c[2] < N - 1 => Cell(cells, c[1], c[2]) # Cell(cells, c[1], c[2] + 1)
        /\ c[1] < N - 1 => Cell(cells, c[1], c[2]) # Cell(cells, c[1] + 1, c[2])

\* C6: on a full board with no two equal tiles next to each other in a row
\* or a column, apply returns None for all four actions, and the search,
\* at the depth handed to it and at the depth of select_action, returns
\* None.
C6_LockedBoardHasNoAction ==
    (pc = "searched" /\ FullAndLocked(board)) =>
        /\ \A a \in Actions : apply(board, a) = <<>>
        /\ result[1] = <<>>
        /\ select_action_expectimax(heur, board, SearchDepth)[1] = <<>>

\* the search has run on a locked board
C6_Witness ==
    /\ pc = "searched"
    /\ board = Checker(2, 1)
    /\ FullAndLocked(board)
    /\ heur = "empty"
    /\ result[1] = <<>>

(***************************************************************************)
(* SpecAgent: the game loop of play_agent (main.rs:62-110), started on     *)
(* PlayableBoard::init().  board is cur; action and played are the locals  *)
(* of the loop body; pc is the statement the loop stands at.               *)
(***************************************************************************)
InitAgent ==
    /\ \E picked \in 0 .. (num_empty(EMPTY) - 1), value \in SpawnValues :
          board = add_random(EMPTY, picked, value)
    /\ action = <<>>
    /\ played = <<>>
    /\ next = EMPTY
    /\ ops = <<>>
    /\ pc = "select"
    /\ heur \in Heuristics
    /\ depth = 0
    /\ result = <<>>
    /\ NoRow
    /\ NoChance
    /\ NoAgent

\* main.rs:87-95: match search::select_action(cur)
SelectAction ==
    /\ pc = "select"
    /\ ~game_over
    /\ num_moves < MaxMoves
    /\ action' = select_action(heur, board)
    /\ IF action' = <<>>
       THEN game_over' = TRUE /\ pc' = "select"
       ELSE game_over' = game_over /\ pc' = "apply"
    /\ UNCHANGED <<board, played, next, ops, num_moves, rowVars, chanceVars, searchVars>>

\* main.rs:101-102: cur.apply(action).expect("invalid action"); num_moves += 1
ApplyAction ==
    /\ pc = "apply"
    /\ LET r == apply(board, action[1])
       IN  IF r = <<>>
           THEN /\ pc' = "expect failed"
                /\ UNCHANGED <<played, num_moves>>
           ELSE /\ played' = r
                /\ num_moves' = num_moves + 1
                /\ pc' = "spawn"
    /\ UNCHANGED <<board, action, next, ops, game_over, rowVars, chanceVars, searchVars>>

\* main.rs:105: cur = played.with_random_tile()
SpawnTile ==
    /\ pc = "spawn"
    /\ IF num_empty(played[1]) = 0
       THEN /\ pc' = "spawn panicked"
            /\ UNCHANGED board
       ELSE /\ \E picked \in 0 .. (num_empty(played[1]) - 1), value \in SpawnValues :
                  board' = add_random(played[1], picked, value)
            /\ pc' = "select"
    /\ UNCHANGED <<action, played, next, ops, agentVars, rowVars, chanceVars, searchVars>>

NextAgent ==
    \/ SelectAction
    \/ ApplyAction
    \/ SpawnTile

SpecAgent == InitAgent /\ [][NextAgent]_vars

CacheBoards == Edited({Checker(SpawnTable[1][1], SpawnTable[2][1])}, MaxCacheEdits)

InitCache ==
    /\ board \in CacheBoards
    /\ action = <<>>
    /\ played = <<>>
    /\ next = board
    /\ ops = <<>>
    /\ pc = "for"
    /\ heur \in Heuristics
    /\ depth = SearchDepth
    /\ result = <<(<<>>), Zero, EmptyCache, (<<>>), NoCalls>>
    /\ NoRow
    /\ NoChance
    /\ NoAgent

\* what the iteration that returned it leaves behind, with its history
\* added to the history calls of the iterations before
Iterated(calls, it) == <<it[1], it[2], it[3], it[4], Calls(<<calls, it[5]>>)>>

\* search.rs:75-86: one iteration of the for loop of
\* select_action_expectimax(board, 3), for the action after those that
\* scores records
IterateSelect ==
    /\ pc = "for"
    /\ Len(result[4]) < Len(ALL_ACTIONS)
    /\ result' = Iterated(result[5],
                          SelectIteration(heur, board, Len(result[4]) + 1, result[1],
                                          result[2], depth, result[3], result[4]))
    /\ UNCHANGED <<pc, heur, depth, rowVars, boardVars, chanceVars, agentVars>>

\* search.rs:87: the loop is over and best_action is returned
ReturnSelect ==
    /\ pc = "for"
    /\ Len(result[4]) = Len(ALL_ACTIONS)
    /\ pc' = "traced"
    /\ UNCHANGED <<rowVars, boardVars, chanceVars, searchVars, agentVars>>

NextCache ==
    \/ IterateSelect
    \/ ReturnSelect

SpecCache == InitCache /\ [][NextCache]_vars

RECURSIVE UncachedRandable(_, _, _)
RECURSIVE UncachedPlayable(_, _, _, _, _)
RECURSIVE UncachedSum(_, _, _, _, _, _)

\* the sum the spawn loop of evaluate_randable reaches from sum over the
\* items succs[lo] .. succs[hi] when no call looks at a cache
UncachedSum(h, succs, lo, hi, sum, d) ==
    IF lo > hi THEN sum
    ELSE IF lo = hi
    THEN LET v == UncachedPlayable(h, succs[lo][2], 1, Zero, d)
         IN  IF Returned(v) THEN RatAdd(sum, RatMul(succs[lo][1], v)) ELSE v
    ELSE LET mid == (lo + hi) \div 2
             half == UncachedSum(h, succs, lo, mid, sum, d)
         IN  IF Returned(half) THEN UncachedSum(h, succs, mid + 1, hi, half, d) ELSE half

\* what evaluate_randable computes for a chance-state at remaining depth d
\* when no call looks at a cache
UncachedRandable(h, cells, d) ==
    IF d = 0 THEN evaluate(h, cells)
    ELSE LET succs == random_successors(cells)
         IN  UncachedSum(h, succs, 1, Len(succs), Zero, d)

\* what evaluate_playable computes for a decision-state at remaining depth
\* d when no call looks at a cache, from action k on
UncachedPlayable(h, cells, k, best, d) ==
    IF k > Len(ALL_ACTIONS) THEN best
    ELSE LET succ == apply(cells, ALL_ACTIONS[k])
         IN  IF succ = <<>> THEN UncachedPlayable(h, cells, k + 1, best, d)
             ELSE LET v == UncachedRandable(h, succ[1], d - 1)
                  IN  IF Exceeds(v, best)
                      THEN UncachedPlayable(h, cells, k + 1, v, d)
                      ELSE UncachedPlayable(h, cells, k + 1, best, d)

\* two fractions are the same number
SameNumber(x, y) == ~Exceeds(x, y) /\ ~Exceeds(y, x)

RECURSIVE Returns(_)
\* the returns of evaluate_randable a history holds
Returns(calls) ==
    {calls[1][k] : k \in 1 .. Len(calls[1])}
        \cup UNION {Returns(calls[2][k]) : k \in 1 .. Len(calls[2])}

\* the returns of evaluate_randable of the search that has run
Traced == IF pc = "traced" THEN Returns(result[5]) ELSE {}

\* C11: within one search, every value evaluate_randable returns for a
\* chance-state at remaining depth d, computed or taken from the cache, is
\* the value the recursion without a cache computes for that state at depth
\* d; two calls on the same state and depth return the same value; and a
\* board the search leaves in the cache, looked up at a depth other than
\* the stored one, gives the value of the depth asked for.
C11_CacheReturnsUncachedValue ==
    pc = "traced" =>
        LET returns == Traced
            cache == result[3]
        IN  /\ \A c \in returns : SameNumber(c[3], UncachedRandable(heur, c[1], c[2]))
            /\ \A c \in returns, e \in returns :
                  (c[1] = e[1] /\ c[2] = e[2]) => c[3] = e[3]
            /\ \A cells \in DOMAIN cache :
                  /\ SameNumber(cache[cells][1],
                                UncachedRandable(heur, cells, cache[cells][2]))
                  /\ \A d \in 0 .. MaxLookupDepth :
                        SameNumber(evaluate_randable(heur, cells, d, cache)[1],
                                   UncachedRandable(heur, cells, d))

\* a search has taken a value from the cache: a chance-state it had summed
\* over several spawns came back at the same remaining depth
C11_Witness ==
    /\ pc = "traced"
    /\ \E c \in Traced :
          /\ c[4]
          /\ c[2] >= 1
          /\ Len(random_successors(c[1])) > 2
          /\ \E e \in Traced : e[1] = c[1] /\ e[2] = c[2] /\ ~e[4]
    /\ \E cells \in DOMAIN result[3] : result[3][cells][2] > MaxLookupDepth

\* C13: with any cache a search builds, evaluate_randable called with
\* remaining depth 0 returns the heuristic's evaluation of the board, calls
\* nothing, takes nothing from the cache and leaves the cache as it was; no
\* entry of the cache is stored for depth 0.
C13_DepthZeroIsEvaluate ==
    LET cache == result[3]
    IN  /\ \A c \in Returns(result[5]) :
              c[2] = 0 => (c[3] = evaluate(heur, c[1]) /\ ~c[4])
        /\ \A cells \in DOMAIN cache : cache[cells][2] # 0
        /\ \A cells \in DOMAIN cache \cup {board} :
              evaluate_randable(heur, cells, 0, cache)
                  = <<evaluate(heur, cells), cache,
                      Call(cells, 0, evaluate(heur, cells), FALSE, NoCalls)>>

\* the search has called evaluate_randable with remaining depth 0, and the
\* cache holds a board whose stored value is not the heuristic's evaluation
C13_Witness ==
    /\ pc = "for"
    /\ \E c \in Returns(result[5]) : c[2] = 0
    /\ \E cells \in DOMAIN result[3] :
          ~SameNumber(result[3][cells][1], evaluate(heur, cells))

(***************************************************************************)
(* SpecPlayable: evaluate_playable called on a board, with an empty cache, *)
(* at the depths 1..MaxSearchDepth and with each heuristic                 *)
(***************************************************************************)
InitPlayable ==
    /\ board \in SearchBoards
    /\ action = <<>>
    /\ played = <<>>
    /\ next = board
    /\ ops = <<>>
    /\ pc = "start"
    /\ heur \in Heuristics
    /\ depth \in 1 .. MaxSearchDepth
    /\ result = <<>>
    /\ NoRow
    /\ NoChance
    /\ NoAgent

\* let result = evaluate_playable(board, depth, stats, cache)
EvaluatePlayable ==
    /\ pc = "start"
    /\ result' = evaluate_playable(heur, board, depth, EmptyCache)
    /\ pc' = "evaluated"
    /\ UNCHANGED <<heur, depth, rowVars, boardVars, chanceVars, agentVars>>

NextPlayable == EvaluatePlayable

SpecPlayable == InitPlayable /\ [][NextPlayable]_vars

\* what evaluate_randable returns for the chance-state that the legal
\* action at place k of ALL_ACTIONS leads to, one level further down
SuccessorValue(k) ==
    evaluate_randable(heur, apply(board, ALL_ACTIONS[k])[1], depth - 1, EmptyCache)[1]

\* the value v is the largest of the values of the legal actions
LargestSuccessorValue(v) ==
    /\ \E k \in Legal(board) : SameNumber(v, SuccessorValue(k))
    /\ \A k \in Legal(board) : ~Exceeds(SuccessorValue(k), v)

\* C12 as stated: for every decision-state, depth d >= 1 and heuristic,
\* evaluate_playable returns the maximum over the legal actions of
\* evaluate_randable(successor, d - 1), and 0 if no action is legal.
C12_DecisionValueIsMaximum ==
    pc = "evaluated" =>
        IF Legal(board) = {}
        THEN result[1] = Zero
        ELSE LargestSuccessorValue(result[1])

\* C12, what the code does: evaluate_playable returns the maximum over the
\* legal actions of evaluate_randable(successor, d - 1) when that maximum is
\* greater than 0, and 0 otherwise.
C12_DecisionValueIsMaximumAboveZero ==
    pc = "evaluated" =>
        IF \E k \in Legal(board) : Exceeds(SuccessorValue(k), Zero)
        THEN LargestSuccessorValue(result[1])
        ELSE result[1] = Zero

\* evaluate_playable has returned 0 for a board whose legal actions all
\* have a value below 0
C12_Witness ==
    /\ pc = "evaluated"
    /\ heur = "negative"
    /\ depth = 1
    /\ board = SetCell(EMPTY, 0, 0, 1)
    /\ Legal(board) # {}
    /\ \A k \in Legal(board) : SameNumber(SuccessorValue(k), <<-1, 1>>)
    /\ result[1] = Zero

(***************************************************************************)
(* SpecPerson: the game loop of play_person (main.rs:113-177), where the   *)
(* player may press the key of any action.  The game starts on             *)
(* PlayableBoard::init() or is taken up in progress on a crowded board.    *)
(* board is cur; action and played are the locals of the loop body; pc is  *)
(* the statement the loop stands at.                                       *)
(***************************************************************************)
\* the crowded boards a game is taken up on: the locked board of the two
\* spawned tiles with at most MaxEdits cells overwritten
GameBoards == Edited({Checker(SpawnTable[1][1], SpawnTable[2][1])}, MaxEdits)

InitPerson ==
    /\ \/ \E picked \in 0 .. (num_empty(EMPTY) - 1), value \in SpawnValues :
             board = add_random(EMPTY, picked, value)
       \/ board \in GameBoards
    /\ action = <<>>
    /\ played = <<>>
    /\ next = EMPTY
    /\ ops = <<>>
    /\ pc = "check"
    /\ NoRow
    /\ NoChance
    /\ NoSearch
    /\ NoAgent

\* main.rs:130-143: the game is over when no action applies
CheckGameOver ==
    /\ pc = "check"
    /\ ~game_over
    /\ IF \A k \in 1 .. Len(ALL_ACTIONS) : apply(board, ALL_ACTIONS[k]) = <<>>
       THEN game_over' = TRUE /\ pc' = "check"
       ELSE game_over' = game_over /\ pc' = "key"
    /\ UNCHANGED <<board, action, played, next, ops, num_moves,
                   rowVars, chanceVars, searchVars>>

\* main.rs:146-175: no key is pressed in this frame
PressNothing ==
    /\ pc = "key"
    /\ action' = <<>>
    /\ pc' = "check"
    /\ UNCHANGED <<board, played, next, ops, agentVars, rowVars, chanceVars, searchVars>>

\* main.rs:146-160: the key of action a is pressed; a legal action is
\* counted and applied, any other is dropped
PressKey(a) ==
    /\ pc = "key"
    /\ num_moves < MaxGameMoves
    /\ action' = <<a>>
    /\ IF apply(board, a) # <<>>
       THEN /\ num_moves' = num_moves + 1
            /\ played' = apply(board, a)
            /\ pc' = "spawn"
       ELSE /\ pc' = "check"
            /\ UNCHANGED <<played, num_moves>>
    /\ UNCHANGED <<board, next, ops, game_over, rowVars, chanceVars, searchVars>>

\* main.rs:163: cur = played.with_random_tile()
SpawnForPerson ==
    /\ pc = "spawn"
    /\ IF num_empty(played[1]) = 0
       THEN /\ pc' = "spawn panicked"
            /\ UNCHANGED board
       ELSE /\ \E picked \in 0 .. (num_empty(played[1]) - 1), value \in SpawnValues :
                  board' = add_random(played[1], picked, value)
            /\ pc' = "check"
    /\ UNCHANGED <<action, played, next, ops, agentVars, rowVars, chanceVars, searchVars>>

NextPerson ==
    \/ CheckGameOver
    \/ PressNothing
    \/ \E a \in Actions : PressKey(a)
    \/ SpawnForPerson

SpecPerson == InitPerson /\ [][NextPerson]_vars

\* C14: the chance-state a successful apply produces has an empty cell, and
\* at least as many empty cells as the board the action was applied to; in
\* the game loop the random spawn is never called on a board without an
\* empty cell, so random_range(0..n) is never called with n = 0.
C14_SpawnHasEmptyCell ==
    /\ pc # "spawn panicked"
    /\ pc = "spawn" =>
          /\ played = apply(board, action[1])
          /\ played # <<>>
          /\ num_empty(played[1]) >= 1
          /\ num_empty(played[1]) >= num_empty(board)

\* the second move of a game was made on a full board, and the merge left
\* an empty cell for the spawn
C14_Witness ==
    /\ pc = "spawn"
    /\ num_moves > 1
    /\ num_empty(board) = 0
    /\ played = apply(board, action[1])
    /\ played # <<>>
    /\ num_empty(played[1]) >= 1

====
